---- MODULE Spec2Model ----
(***************************************************************************)
(* Model of python-mcp-sandbox: the static analyzer (check_syntax, scan),  *)
(* the MCP tool test_code and the launcher SafeExecutor.run.               *)
(***************************************************************************)
EXTENDS Integers, Sequences, FiniteSets, TLC

VARIABLES
    \* inputs of one test_code call and the host it runs on;
    \* cpu_limit_sec is a float, held in tenths of a second
    code, timeout, cpu_limit_sec, memory_limit_mb, platform, pywin32, user,
    \* test_code: position, locals, the JSON it returns
    pc, syntax_result, violations, result, reply, outcome,
    \* SafeExecutor.run: locals
    script_path, process, job_handle, stdout, stderr, exit_code, pending,
    \* the host: temp files on disk, child processes, the Job Object
    files, procs, capped, job,
    \* the limits in force: the rlimits of each child, the Job Object's
    \* extended limit information
    rlimits, job_limits,
    \* history of the call
    created, spawned, trace, deadline_hit,
    \* the child running the rendered template: the user code and what is
    \* left of it, the template's position and variables, the process's
    \* module cache and real stdout, and what the user code did
    user_code, program, cpc, sys_modules, safe_builtins, safe_globals,
    stdout_buffer, stderr_buffer, real_stdout, t_exit_code, raised, printed,
    \* concurrent calls of SafeExecutor.run: each call's position and
    \* locals, the shared temp directory and process table, and the
    \* operations a call performed on what another call owns
    k_pc, k_path, k_proc, k_result, k_files, k_procs, k_foreign

inputs == <<code, timeout, cpu_limit_sec, memory_limit_mb, platform, pywin32, user>>
limits == <<rlimits, job_limits>>
child == <<user_code, program, cpc, sys_modules, safe_builtins, safe_globals,
           stdout_buffer, stderr_buffer, real_stdout, t_exit_code, raised,
           printed>>
calls == <<k_pc, k_path, k_proc, k_result, k_files, k_procs, k_foreign>>
analysis == <<syntax_result, violations>>
locals == <<script_path, process, job_handle, stdout, stderr, exit_code, pending>>
host == <<files, procs, capped, job>>
history == <<created, spawned, trace, deadline_hit>>
launcher == <<inputs, pc, analysis, result, reply, outcome, locals, host,
              history, limits>>
vars == <<launcher, child, calls>>

(***************************************************************************)
(* Bounds of the model.                                                    *)
(***************************************************************************)
\* nesting depth of call expressions in the generated sources
MaxDepth == 2
\* number of statements in a generated module body
MaxStmts == 2
\* number of child processes one call can spawn in the model
MaxChildren == 2

(***************************************************************************)
(* Abstract syntax trees, as ast.parse builds them.  A node carries its    *)
(* class name, its identifier (Name.id, Attribute.attr), its dotted module *)
(* name as a token sequence (alias.name, ImportFrom.module; << >> is None) *)
(* and its child fields in the order of the class's _fields.               *)
(***************************************************************************)
Node(kind, id, dotted, fields) ==
    [kind |-> kind, id |-> id, dotted |-> dotted, fields |-> fields]

Name(id) == Node("Name", id, <<>>, <<>>)
Attribute(value, attr) == Node("Attribute", attr, <<>>, << <<value>> >>)
\* Call._fields = (func, args, keywords)
Call(func, args) == Node("Call", "", <<>>, << <<func>>, args, <<>> >>)
\* IfExp._fields = (test, body, orelse)
IfExp(test, body, orelse) ==
    Node("IfExp", "", <<>>, << <<test>>, <<body>>, <<orelse>> >>)
\* comprehension._fields = (target, iter, ifs, is_async)
Comprehension(target, iter) ==
    Node("comprehension", "", <<>>, << <<target>>, <<iter>>, <<>> >>)
\* ListComp._fields = (elt, generators)
ListComp(elt, iter) ==
    Node("ListComp", "", <<>>, << <<elt>>, <<Comprehension(Name("x"), iter)>> >>)
Alias(dotted) == Node("alias", "", dotted, <<>>)
\* Import._fields = (names,)
Import(names) == Node("Import", "", <<>>, << names >>)
\* ImportFrom._fields = (module, names, level)
ImportFrom(module, names) == Node("ImportFrom", "", module, << names >>)
\* arguments._fields = (..., defaults)
Arguments(defaults) == Node("arguments", "", <<>>, << defaults >>)
\* FunctionDef._fields = (name, args, body, decorator_list, returns, ...)
FunctionDef(defaults, body, decorator_list) ==
    Node("FunctionDef", "g", <<>>,
         << <<Arguments(defaults)>>, body, decorator_list >>)
ExprStmt(value) == Node("Expr", "", <<>>, << <<value>> >>)
Module(body) == Node("Module", "", <<>>, << body >>)

(***************************************************************************)
(* SecurityChecker: the policy tables and the visitor.                     *)
(***************************************************************************)
DANGEROUS_NAMES ==
    {"open", "__import__", "eval", "exec", "compile",
     "getattr", "setattr", "globals", "locals", "input",
     "help", "dir", "vars", "breakpoint", "memoryview"}

DANGEROUS_MODULES ==
    {"os", "sys", "subprocess", "shutil", "socket",
     "requests", "urllib", "pathlib", "inspect", "types",
     "ctypes", "pickle", "marshal", "builtins", "platform",
     "resource", "signal"}

\* str.split('.')[0]: the tokens before the first "." separator, joined
RECURSIVE SplitFirst(_)
SplitFirst(dotted) ==
    IF dotted = <<>> \/ Head(dotted) = "." THEN <<>>
    ELSE <<Head(dotted)>> \o SplitFirst(Tail(dotted))

\* a module path component is one token, so the joined prefix is its token
BaseModule(dotted) ==
    LET p == SplitFirst(dotted) IN IF p = <<>> THEN "" ELSE p[1]

ImportMsg(base_module) == <<"Import of dangerous module: ", base_module>>
ImportFromMsg(base_module) == <<"Import from dangerous module: ", base_module>>
CallMsg(func_name) == <<"Call to dangerous function: ", func_name>>
SyntaxErrorMsg == <<"Syntax error (should have been caught earlier)", "">>

RECURSIVE Visit(_, _), VisitList(_, _), VisitFields(_, _)

\* ast.NodeVisitor.generic_visit: every field in _fields order, every item
\* of a list field in list order
GenericVisit(node, v) == VisitFields(node.fields, v)

\* the loop of visit_Import over node.names
RECURSIVE ImportLoop(_, _)
ImportLoop(names, v) ==
    IF names = <<>> THEN v
    ELSE LET base_module == BaseModule(Head(names).dotted)
         IN  ImportLoop(Tail(names),
                 IF base_module \in DANGEROUS_MODULES
                 THEN Append(v, ImportMsg(base_module))
                 ELSE v)

visit_Import(node, v) == GenericVisit(node, ImportLoop(node.fields[1], v))

visit_ImportFrom(node, v) ==
    LET base_module == BaseModule(node.dotted)
    IN  GenericVisit(node,
            IF node.dotted # <<>> /\ base_module \in DANGEROUS_MODULES
            THEN Append(v, ImportFromMsg(base_module))
            ELSE v)

\* visit_Call without its generic_visit: the arguments are not visited
visit_CallShallow(node, v) ==
    LET func == node.fields[1][1]
    IN  IF func.kind = "Name" /\ func.id \in DANGEROUS_NAMES
        THEN Append(v, CallMsg(func.id))
        ELSE v

\* visit_Call with generic_visit before the check: children reported first
visit_CallPostOrder(node, v) ==
    LET func == node.fields[1][1]
        w == GenericVisit(node, v)
    IN  IF func.kind = "Name" /\ func.id \in DANGEROUS_NAMES
        THEN Append(w, CallMsg(func.id))
        ELSE w

visit_Call(node, v) ==
    LET func == node.fields[1][1]
    IN  GenericVisit(node,
            IF func.kind = "Name" /\ func.id \in DANGEROUS_NAMES
            THEN Append(v, CallMsg(func.id))
            ELSE v)

\* ast.NodeVisitor.visit: dispatch on the class name
Visit(node, v) ==
    CASE node.kind = "Import"     -> visit_Import(node, v)
      [] node.kind = "ImportFrom" -> visit_ImportFrom(node, v)
      [] node.kind = "Call"       -> visit_Call(node, v)
      [] OTHER                    -> GenericVisit(node, v)

VisitList(list, v) ==
    IF list = <<>> THEN v ELSE VisitList(Tail(list), Visit(Head(list), v))

VisitFields(fields, v) ==
    IF fields = <<>> THEN v
    ELSE VisitFields(Tail(fields), VisitList(Head(fields), v))

\* SecurityChecker.scan; a source is [parse, tree], parse the outcome of
\* ast.parse on it
scan(src) ==
    IF src.parse = "SyntaxError" THEN <<SyntaxErrorMsg>>
    ELSE Visit(src.tree, <<>>)

(***************************************************************************)
(* The sources the analyzer is run on: every module whose first statement  *)
(* is drawn from Stmts(MaxDepth) and whose further statements, up to       *)
(* MaxStmts in all, are drawn from SmallStmts; and one unparseable source. *)
(***************************************************************************)
Ids == {"eval", "open", "f"}

Dotted == { <<"os">>, <<"os", ".", "path">>, <<"json">>, <<"a", ".", "os">> }

Calls0 == { Call(Name(i), <<>>) : i \in Ids }

RECURSIVE Exprs(_)
Exprs(d) ==
    IF d = 0 THEN { Name(i) : i \in Ids }
    ELSE LET E == Exprs(d - 1)
         IN  E \cup Calls0
               \cup { Call(Name(i), <<a>>) : i \in Ids, a \in E }
               \cup { Call(Attribute(Name("f"), "system"), <<a>>) : a \in E }
               \cup { Call(c, <<a>>) : c \in Calls0, a \in Calls0 }

Compound ==
    { IfExp(t, b, o) : t \in Calls0, b \in Calls0, o \in Calls0 }
      \cup { ListComp(e, i) : e \in Calls0, i \in Calls0 }

Imports ==
    { Import(<<Alias(a)>>) : a \in Dotted }
      \cup { Import(<<Alias(a), Alias(b)>>) : a \in Dotted, b \in Dotted }
      \cup { ImportFrom(m, <<Alias(<<"os">>)>>) : m \in Dotted \cup {<<>>} }

SmallStmts ==
    { ExprStmt(Call(Name("eval"), <<>>)), ExprStmt(Name("f")),
      Import(<<Alias(<<"os">>)>>),
      ImportFrom(<<"sys">>, <<Alias(<<"argv">>)>>) }

OptCall == {<<>>} \cup { <<c>> : c \in Calls0 }

FunctionDefs ==
    { FunctionDef(d, <<s>>, dec) : d \in OptCall, s \in SmallStmts, dec \in OptCall }

Stmts(d) ==
    { ExprStmt(e) : e \in Exprs(d) \cup Compound } \cup Imports \cup FunctionDefs

RECURSIVE Tails(_)
Tails(n) ==
    IF n = 0 THEN { <<>> }
    ELSE LET T == Tails(n - 1)
         IN  T \cup { <<s>> \o t : s \in SmallStmts, t \in T }

\* A source is the outcome of ast.parse on it: "ok" with the tree, or the
\* exception raised, with str(e) as tokens, e.lineno, e.offset and the
\* source lines.  deep: the tree nests deeper than the interpreter's
\* recursion limit lets NodeVisitor walk (ast.parse itself accepts it).
Source(parse, tree, deep, msg, lineno, offset, lines) ==
    [parse |-> parse, tree |-> tree, deep |-> deep, msg |-> msg,
     lineno |-> lineno, offset |-> offset, lines |-> lines]

Parsed(tree) == Source("ok", tree, FALSE, <<>>, 0, 0, <<>>)
\* "x = = 1" : SyntaxError "invalid syntax (<unknown>, line 1)"
Unparseable ==
    Source("SyntaxError", Module(<<>>), FALSE,
           <<"invalid syntax", " ", "(", "<unknown>, line 1", ")">>,
           1, 5, << <<"x = = 1">> >>)
\* a source on which ast.parse raises something else than SyntaxError
Unreadable ==
    Source("Exception", Module(<<>>), FALSE,
           <<"source code string cannot contain null bytes">>, 0, 0, <<>>)
\* "x = " + 600 * "-" + "1": parses, but visiting it raises RecursionError
DeepSource ==
    Source("ok", Module(<<ExprStmt(Name("f"))>>), TRUE, <<>>, 0, 0, <<>>)

Sources ==
    { Parsed(Module(<<s>> \o t)) : s \in Stmts(MaxDepth), t \in Tails(MaxStmts - 1) }
      \cup { Unparseable }

(***************************************************************************)
(* check_syntax.                                                           *)
(***************************************************************************)
\* str.split('(', 1)[0]: the tokens before the first "(" token
RECURSIVE SplitParen(_)
SplitParen(msg) ==
    IF msg = <<>> \/ Head(msg) = "(" THEN <<>>
    ELSE <<Head(msg)>> \o SplitParen(Tail(msg))

\* str.strip(): drop leading and trailing whitespace tokens
RECURSIVE LStrip(_), RStrip(_)
LStrip(t) == IF t # <<>> /\ Head(t) = " " THEN LStrip(Tail(t)) ELSE t
RStrip(t) ==
    IF t # <<>> /\ t[Len(t)] = " " THEN RStrip(SubSeq(t, 1, Len(t) - 1)) ELSE t
Strip(t) == RStrip(LStrip(t))

check_syntax(src) ==
    CASE src.parse = "ok" -> [valid |-> TRUE]
      [] src.parse = "SyntaxError" ->
           LET error_line ==
                   IF src.lineno # 0 /\ 0 < src.lineno /\ src.lineno <= Len(src.lines)
                   THEN src.lines[src.lineno] ELSE <<>>
           IN  [valid |-> FALSE,
                error |-> Strip(SplitParen(src.msg)),
                line |-> src.lineno,
                offset |-> src.offset,
                context |-> Strip(error_line)]
      [] OTHER ->
           [valid |-> FALSE,
            error |-> <<"Internal syntax checker error: ">> \o src.msg,
            line |-> 0, offset |-> 0, context |-> <<>>]

(***************************************************************************)
(* Inputs of the launcher.                                                 *)
(***************************************************************************)
\* the sources test_code is called with
SampleSources ==
    { Unparseable, Unreadable, DeepSource,
      Parsed(Module(<<ExprStmt(Call(Name("print"), <<Name("x")>>))>>)),
      Parsed(Module(<<ExprStmt(Call(Name("eval"), <<Name("x")>>))>>)),
      Parsed(Module(<<Import(<<Alias(<<"os">>)>>)>>)) }

\* wall-clock timeouts, in seconds
Timeouts == {1, 15}

\* CPU limits in tenths of a second (0, 0.5 s, 1.0 s) and memory limits in MB
CpuLimits == {0, 5, 10}
MemoryLimits == {0, 50}

\* preexec_set_limits: the rlimits it installs in the child, (soft, hard)
preexec_set_limits(cpu, mem) ==
    (IF cpu > 0
     THEN {[resource |-> "RLIMIT_CPU", soft |-> cpu \div 10, hard |-> cpu \div 10]}
     ELSE {})
    \cup
    (IF mem > 0
     THEN {[resource |-> "RLIMIT_AS", soft |-> mem * 1024 * 1024,
            hard |-> mem * 1024 * 1024]}
     ELSE {})

\* what QueryInformationJobObject returns for a Job Object just created
NoJobLimits ==
    [LimitFlags |-> {}, ProcessMemoryLimit |-> 0, JobMemoryLimit |-> 0,
     PerProcessUserTimeLimit |-> 0]

\* lines 99-121: the extended limit information handed to
\* SetInformationJobObject; the CPU limit is in 100 ns units
extended_info(queried, cpu, mem) ==
    [LimitFlags |-> {"JOB_OBJECT_LIMIT_PROCESS_MEMORY",
                     "JOB_OBJECT_LIMIT_JOB_MEMORY",
                     "JOB_OBJECT_LIMIT_ACTIVE_PROCESS",
                     "JOB_OBJECT_LIMIT_PROCESS_TIME"},
     ProcessMemoryLimit |->
         IF mem > 0 THEN mem * 1024 * 1024 ELSE queried.ProcessMemoryLimit,
     JobMemoryLimit |->
         IF mem > 0 THEN mem * 1024 * 1024 ELSE queried.JobMemoryLimit,
     PerProcessUserTimeLimit |->
         IF cpu > 0 THEN cpu * 1000000 ELSE queried.PerProcessUserTimeLimit]

\* What the user code does when the child runs it: whether the child exits
\* by itself, what it has put on its real stdout, its exit status, and the
\* exit_code inside the envelope.
Behaviour(terminates, out, rc, rec_exit) ==
    [terminates |-> terminates, out |-> out, rc |-> rc, rec_exit |-> rec_exit]

Behaviours ==
    { Behaviour(TRUE, "record", 0, 0),       \* ran to completion
      Behaviour(TRUE, "record", 0, 1),       \* raised; envelope says 1
      Behaviour(TRUE, "empty", -9, 0),       \* killed by a resource cap
      Behaviour(TRUE, "garbage", 0, 0),      \* wrote past print to real stdout
      Behaviour(TRUE, "nonrecord", 0, 0),    \* real stdout holds JSON "123"
      Behaviour(TRUE, "undecodable", 0, 0),  \* real stdout holds b"\xff"
      Behaviour(FALSE, "empty", 0, 0),       \* while True: pass
      Behaviour(FALSE, "garbage", 0, 0),
      Behaviour(FALSE, "undecodable", 0, 0) }

\* the bytes on the child's stdout pipe, as text tokens
RawStdout(b) ==
    CASE b.out = "record"      -> <<"{envelope}", ToString(b.rec_exit)>>
      [] b.out = "nonrecord"   -> <<"123">>
      [] b.out = "garbage"     -> <<"oops">>
      [] b.out = "undecodable" -> <<"\\xff">>
      [] OTHER                 -> <<>>

\* the text the child's stderr pipe holds
RawStderr(b) == IF b.rc # 0 THEN <<"Killed">> ELSE <<>>

NonRecord == [nonrecord |-> 123]

\* json.loads(stdout): the envelope, a JSON value that is no object, or
\* JSONDecodeError
json_loads(text) ==
    CASE text # <<>> /\ text[1] = "{envelope}" ->
           [ok |-> TRUE,
            value |-> [stdout |-> <<"4\n">>, stderr |-> <<>>,
                       exit_code |-> IF text[2] = "0" THEN 0 ELSE 1]]
      [] text = <<"123">> -> [ok |-> TRUE, value |-> NonRecord]
      [] OTHER -> [ok |-> FALSE, value |-> NonRecord]

IsDict(value) == value # NonRecord

ACTIVE_WARNING == <<"Windows sandbox active with pywin32 support.">>
REDUCED_WARNING ==
    <<"Windows resource limits may be less effective (install pywin32 for full support via Job Objects).">>

\* _get_platform_warning; win32job imports iff pywin32 is installed
get_platform_warning(is_unix, has_pywin32) ==
    IF is_unix THEN <<>>
    ELSE IF has_pywin32 THEN ACTIVE_WARNING ELSE REDUCED_WARNING

IS_UNIX == platform = "unix"

TimeoutResult(t) ==
    [stdout |-> <<>>,
     stderr |-> <<"Execution timed out after ", ToString(t), " seconds">>,
     exit_code |-> 124]

NoReply == [phase |-> "none"]
None == "None"
NoProcess == 0
Pids == 1..MaxChildren

EmptyDict == [n \in {} |-> n]
NoException == [type |-> None, msg |-> <<>>]

\* no child is running the template
ChildIdle ==
    /\ user_code = <<>>
    /\ program = <<>>
    /\ cpc = "idle"
    /\ sys_modules = {}
    /\ safe_builtins = EmptyDict
    /\ safe_globals = EmptyDict
    /\ stdout_buffer = <<>>
    /\ stderr_buffer = <<>>
    /\ real_stdout = <<>>
    /\ t_exit_code = None
    /\ raised = NoException
    /\ printed = <<>>

\* no concurrent calls of SafeExecutor.run
CallsIdle ==
    /\ k_pc = EmptyDict
    /\ k_path = EmptyDict
    /\ k_proc = EmptyDict
    /\ k_result = EmptyDict
    /\ k_files = EmptyDict
    /\ k_procs = EmptyDict
    /\ k_foreign = {}

(***************************************************************************)
(* Init: test_code has been called.                                        *)
(***************************************************************************)
Idle ==
    /\ syntax_result = [valid |-> FALSE]
    /\ violations = <<>>
    /\ result = NonRecord
    /\ reply = NoReply
    /\ outcome = "pending"
    /\ script_path = ""
    /\ process = NoProcess
    /\ job_handle = FALSE
    /\ stdout = <<>>
    /\ stderr = <<>>
    /\ exit_code = None
    /\ pending = "none"
    /\ files = {}
    /\ procs = [p \in Pids |-> "none"]
    /\ capped = {}
    /\ job = "none"
    /\ rlimits = [p \in Pids |-> {}]
    /\ job_limits = NoJobLimits
    /\ created = {}
    /\ spawned = <<>>
    /\ trace = <<>>
    /\ deadline_hit = FALSE

Init ==
    /\ code \in SampleSources
    /\ timeout \in Timeouts
    /\ cpu_limit_sec \in CpuLimits
    /\ memory_limit_mb \in MemoryLimits
    /\ platform \in {"unix", "windows"}
    /\ pywin32 \in (IF platform = "unix" THEN {FALSE} ELSE BOOLEAN)
    /\ user \in Behaviours
    /\ pc = "check_syntax"
    /\ Idle
    /\ ChildIdle
    /\ CallsIdle

(***************************************************************************)
(* test_code, up to the call of SafeExecutor.run.                          *)
(***************************************************************************)
\* line 115: where test_code goes after the syntax check
AfterSyntax(sr) == IF ~sr.valid THEN "return_syntax" ELSE "scan"

\* test_code without the return at lines 122-129
AfterScanIgnoringViolations(v) == "run"

\* line 122: where test_code goes after the scan
AfterScan(v) == IF v # <<>> THEN "return_security" ELSE "run"

CheckSyntax ==
    /\ pc = "check_syntax"
    /\ LET sr == check_syntax(code)
       IN  /\ syntax_result' = sr
           /\ trace' = Append(trace, "syntax_check")
           /\ IF AfterSyntax(sr) = "return_syntax"
              THEN /\ reply' = [phase |-> "syntax_check"] @@ sr
                   /\ outcome' = "returned"
                   /\ pc' = "done"
              ELSE /\ pc' = "scan"
                   /\ UNCHANGED <<reply, outcome>>
    /\ UNCHANGED <<child, calls, inputs, limits, violations, result, locals, host,
                   created, spawned, deadline_hit>>

\* visitor.visit(tree) raises RecursionError on a deep tree; line 121 is
\* outside every try of test_code
Scan ==
    /\ pc = "scan"
    /\ trace' = Append(trace, "security_check")
    /\ IF code.deep
       THEN /\ outcome' = "raised"
            /\ pc' = "done"
            /\ UNCHANGED <<violations, reply>>
       ELSE LET v == scan(code)
            IN  /\ violations' = v
                /\ IF AfterScan(v) = "return_security"
                   THEN /\ reply' = [valid |-> FALSE,
                                     phase |-> "security_check",
                                     violations |-> v,
                                     platform_warning |->
                                         get_platform_warning(IS_UNIX, pywin32)]
                        /\ outcome' = "returned"
                        /\ pc' = "done"
                   ELSE /\ pc' = "run"
                        /\ UNCHANGED <<reply, outcome>>
    /\ UNCHANGED <<child, calls, inputs, limits, syntax_result, result, locals, host,
                   created, spawned, deadline_hit>>

(***************************************************************************)
(* SafeExecutor.run.                                                       *)
(***************************************************************************)
\* the name tempfile.NamedTemporaryFile picks
TempPath == "/tmp/tmp1.py"

NextPid == Len(spawned) + 1

\* lines 39: NamedTemporaryFile(delete=False) creates the file, or raises
CreateTempFile ==
    /\ pc = "run"
    /\ trace' = Append(trace, "execution")
    /\ \E ok \in BOOLEAN :
          IF ok
          THEN /\ files' = files \cup {TempPath}
               /\ created' = created \cup {TempPath}
               /\ pc' = "write"
          ELSE /\ pc' = "except"
               /\ UNCHANGED <<files, created>>
    /\ UNCHANGED <<child, calls, inputs, limits, analysis, result, reply, outcome, locals,
                   procs, capped, job, spawned, deadline_hit>>

\* lines 40-41: f.write and the close at the end of the with block; a
\* failure (ENOSPC) leaves the with block before the try is entered
WriteScript ==
    /\ pc = "write"
    /\ \E ok \in BOOLEAN :
          IF ok
          THEN /\ script_path' = TempPath
               /\ pc' = "spawn"
          ELSE /\ pc' = "except"
               /\ UNCHANGED script_path
    /\ UNCHANGED <<child, calls, inputs, limits, analysis, result, reply, outcome,
                   process, job_handle, stdout, stderr, exit_code, pending,
                   host, history>>

\* subprocess.Popen returned: a new child in the given state
Popen(state) ==
    /\ NextPid \in Pids
    /\ procs' = [procs EXCEPT ![NextPid] = state]
    /\ spawned' = Append(spawned, NextPid)
    /\ process' = NextPid

\* an exception other than TimeoutExpired inside the try: the finally
\* block runs and the exception leaves run
RaiseInTry ==
    /\ pending' = "raise"
    /\ pc' = "finally"

\* lines 64-87: Popen with preexec_fn=preexec_set_limits; Popen raises when
\* the fork, the exec or a setrlimit of preexec_fn fails
SpawnUnix ==
    /\ pc = "spawn"
    /\ IS_UNIX
    /\ \E ok \in BOOLEAN :
          IF ok
          THEN /\ Popen("running")
               /\ capped' = capped \cup {NextPid}
               /\ rlimits' = [rlimits EXCEPT ![NextPid] =
                                 preexec_set_limits(cpu_limit_sec, memory_limit_mb)]
               /\ pc' = "communicate"
               /\ UNCHANGED pending
          ELSE /\ RaiseInTry
               /\ UNCHANGED <<procs, spawned, process, capped, rlimits>>
    /\ UNCHANGED <<child, calls, inputs, job_limits, analysis, result, reply, outcome,
                   script_path, job_handle, stdout, stderr, exit_code,
                   files, job, created, trace, deadline_hit>>

\* lines 91-93: the imports of win32job, win32process, win32con
WinImport ==
    /\ pc = "spawn"
    /\ ~IS_UNIX
    /\ pc' = IF pywin32 THEN "win_create_job" ELSE "except_ImportError"
    /\ UNCHANGED <<child, calls, inputs, limits, analysis, result, reply, outcome, locals, host,
                   history>>

\* line 96: CreateJobObject
WinCreateJob ==
    /\ pc = "win_create_job"
    /\ \E ok \in BOOLEAN :
          IF ok THEN job' = "open" /\ pc' = "win_set_limits"
          ELSE job' = job /\ pc' = "except_Exception"
    /\ UNCHANGED <<child, calls, inputs, limits, analysis, result, reply, outcome, locals,
                   files, procs, capped, history>>

\* lines 99-121: QueryInformationJobObject ... SetInformationJobObject
WinSetLimits ==
    /\ pc = "win_set_limits"
    /\ \E ok \in BOOLEAN :
          IF ok
          THEN /\ job_limits' = extended_info(job_limits, cpu_limit_sec,
                                              memory_limit_mb)
               /\ pc' = "win_spawn"
          ELSE /\ pc' = "except_Exception"
               /\ UNCHANGED job_limits
    /\ UNCHANGED <<child, calls, inputs, rlimits, analysis, result, reply, outcome, locals,
                   host, history>>

\* lines 129-139: Popen with CREATE_SUSPENDED
WinSpawnSuspended ==
    /\ pc = "win_spawn"
    /\ \E ok \in BOOLEAN :
          IF ok
          THEN /\ Popen("suspended")
               /\ pc' = "win_assign"
          ELSE /\ pc' = "except_Exception"
               /\ UNCHANGED <<procs, spawned, process>>
    /\ UNCHANGED <<child, calls, inputs, limits, analysis, result, reply, outcome,
                   script_path, job_handle, stdout, stderr, exit_code, pending,
                   files, capped, job, created, trace, deadline_hit>>

\* line 142: AssignProcessToJobObject
WinAssign ==
    /\ pc = "win_assign"
    /\ \E ok \in BOOLEAN :
          IF ok THEN capped' = capped \cup {process} /\ pc' = "win_resume"
          ELSE capped' = capped /\ pc' = "except_Exception"
    /\ UNCHANGED <<child, calls, inputs, limits, analysis, result, reply, outcome, locals,
                   files, procs, job, history>>

\* line 145: ResumeThread
WinResume ==
    /\ pc = "win_resume"
    /\ \E ok \in BOOLEAN :
          IF ok
          THEN procs' = [procs EXCEPT ![process] = "running"]
               /\ pc' = "win_close_handle"
          ELSE procs' = procs /\ pc' = "except_Exception"
    /\ UNCHANGED <<child, calls, inputs, limits, analysis, result, reply, outcome, locals,
                   files, capped, job, history>>

\* lines 146-149: CloseHandle, then job_handle = job
WinCloseHandle ==
    /\ pc = "win_close_handle"
    /\ \E ok \in BOOLEAN :
          IF ok THEN job_handle' = TRUE /\ pc' = "communicate"
          ELSE job_handle' = job_handle /\ pc' = "except_Exception"
    /\ UNCHANGED <<child, calls, inputs, limits, analysis, result, reply, outcome,
                   script_path, process, stdout, stderr, exit_code, pending,
                   host, history>>

\* the Popen without Job Object of a handler; an exception it raises
\* leaves the handler and the try
FallbackPopen ==
    /\ \E ok \in BOOLEAN :
          IF ok
          THEN /\ Popen("running")
               /\ pc' = "communicate"
               /\ UNCHANGED pending
          ELSE /\ RaiseInTry
               /\ UNCHANGED <<procs, spawned, process>>
    /\ UNCHANGED <<child, calls, inputs, limits, analysis, result, reply, outcome,
                   script_path, job_handle, stdout, stderr, exit_code,
                   files, capped, job, created, trace, deadline_hit>>

\* lines 151-166
FallbackImportError ==
    /\ pc = "except_ImportError"
    /\ FallbackPopen

\* lines 167-182
FallbackException ==
    /\ pc = "except_Exception"
    /\ FallbackPopen

\* the child process ends by itself once it runs
ChildExit ==
    /\ user.terminates
    /\ \E p \in Pids :
          /\ procs[p] = "running"
          /\ procs' = [procs EXCEPT ![p] = "exited"]
    /\ UNCHANGED <<child, calls, inputs, limits, pc, analysis, result, reply, outcome, locals,
                   files, capped, job, history>>

\* lines 184-185: communicate returns once the child has exited; it reaps
\* the child and decodes its output
CommunicateReturn ==
    /\ pc = "communicate"
    /\ procs[process] = "exited"
    /\ user.out # "undecodable"
    /\ procs' = [procs EXCEPT ![process] = "reaped"]
    /\ stdout' = RawStdout(user)
    /\ stderr' = RawStderr(user)
    /\ exit_code' = user.rc
    /\ pending' = "fall_through"
    /\ pc' = "finally"
    /\ UNCHANGED <<child, calls, inputs, limits, analysis, result, reply, outcome,
                   script_path, process, job_handle,
                   files, capped, job, history>>

\* line 184: communicate has reaped the child and raises UnicodeDecodeError
\* while decoding its output (text=True)
CommunicateRaise ==
    /\ pc = "communicate"
    /\ procs[process] = "exited"
    /\ user.out = "undecodable"
    /\ procs' = [procs EXCEPT ![process] = "reaped"]
    /\ RaiseInTry
    /\ UNCHANGED <<child, calls, inputs, limits, analysis, result, reply, outcome,
                   script_path, process, job_handle, stdout, stderr, exit_code,
                   files, capped, job, history>>

\* line 184 raises TimeoutExpired: the deadline passed, the child lives
CommunicateTimeout ==
    /\ pc = "communicate"
    /\ procs[process] = "running"
    /\ deadline_hit' = TRUE
    /\ pc' = "kill"
    /\ UNCHANGED <<child, calls, inputs, limits, analysis, result, reply, outcome, locals, host,
                   created, spawned, trace>>

\* lines 188-189: process.kill(); a child that has exited meanwhile is
\* left as it is
Kill ==
    /\ pc = "kill"
    /\ IF process # NoProcess
       THEN /\ procs' = [procs EXCEPT ![process] =
                            IF @ = "running" THEN "killed" ELSE @]
            /\ pc' = "drain"
       ELSE /\ procs' = procs
            /\ pc' = "finally"
    /\ pending' = "return_timeout"
    /\ UNCHANGED <<child, calls, inputs, limits, analysis, result, reply, outcome,
                   script_path, process, job_handle, stdout, stderr, exit_code,
                   files, capped, job, history>>

\* lines 190-194: communicate(timeout=1) returns and reaps the child, or
\* raises TimeoutExpired (the child is not reaped), or raises
\* UnicodeDecodeError on the output read so far
Drain ==
    /\ pc = "drain"
    /\ \/ /\ user.out # "undecodable"
          /\ procs' = [procs EXCEPT ![process] = "reaped"]
          /\ stdout' = RawStdout(user)
          /\ stderr' = RawStderr(user)
          /\ UNCHANGED pending
       \/ /\ stdout' = <<>>
          /\ stderr' = <<"Process killed due to timeout.">>
          /\ UNCHANGED <<procs, pending>>
       \/ /\ user.out = "undecodable"
          /\ procs' = [procs EXCEPT ![process] = "reaped"]
          /\ pending' = "raise"
          /\ UNCHANGED <<stdout, stderr>>
    /\ pc' = "finally"
    /\ UNCHANGED <<child, calls, inputs, limits, analysis, result, reply, outcome,
                   script_path, process, job_handle, exit_code,
                   files, capped, job, history>>

\* lines 200-220, then what was pending: the return of line 195, the
\* exception, or line 222.  CloseHandle and os.unlink may raise; both
\* handlers only log.
Finally ==
    /\ pc = "finally"
    /\ \E closed \in BOOLEAN :
          job' = IF job_handle /\ closed THEN "closed" ELSE job
    /\ \E unlinked \in BOOLEAN :
          files' = IF unlinked THEN files \ {script_path} ELSE files
    /\ CASE pending = "return_timeout" ->
              /\ result' = TimeoutResult(timeout)
              /\ pc' = "returned_from_run"
         [] pending = "raise" ->
              /\ pc' = "except"
              /\ UNCHANGED result
         [] OTHER ->
              /\ pc' = "parse"
              /\ UNCHANGED result
    /\ UNCHANGED <<child, calls, inputs, limits, analysis, reply, outcome, locals,
                   procs, capped, history>>

\* lines 223-231
ParseOutput ==
    /\ pc = "parse"
    /\ LET parsed == json_loads(stdout)
       IN  result' =
             IF parsed.ok THEN parsed.value
             ELSE [stdout |-> stdout,
                   stderr |-> IF stderr # <<>> THEN stderr
                              ELSE <<"Failed to parse sandbox output or sandbox did not return JSON.">>,
                   exit_code |-> IF exit_code # 0 THEN exit_code ELSE 1]
    /\ pc' = "returned_from_run"
    /\ UNCHANGED <<child, calls, inputs, limits, analysis, reply, outcome, locals, host, history>>

(***************************************************************************)
(* test_code, after SafeExecutor.run.                                      *)
(***************************************************************************)
\* lines 140-144; result.get raises AttributeError when result is no dict
TestCodeReturn ==
    /\ pc = "returned_from_run"
    /\ IF IsDict(result)
       THEN /\ reply' = [phase |-> "execution",
                         platform_warning |->
                             get_platform_warning(IS_UNIX, pywin32)] @@ result
            /\ outcome' = "returned"
            /\ pc' = "done"
       ELSE /\ pc' = "except"
            /\ UNCHANGED <<reply, outcome>>
    /\ UNCHANGED <<child, calls, inputs, limits, analysis, result, locals, host, history>>

\* lines 145-151
TestCodeExcept ==
    /\ pc = "except"
    /\ reply' = [valid |-> FALSE, phase |-> "execution",
                 error |-> <<"Sandbox execution failed: ">>]
    /\ outcome' = "returned"
    /\ pc' = "done"
    /\ UNCHANGED <<child, calls, inputs, limits, analysis, result, locals, host, history>>

Launcher ==
    \/ CheckSyntax \/ Scan
    \/ CreateTempFile \/ WriteScript
    \/ SpawnUnix
    \/ WinImport \/ WinCreateJob \/ WinSetLimits \/ WinSpawnSuspended
    \/ WinAssign \/ WinResume \/ WinCloseHandle
    \/ FallbackImportError \/ FallbackException
    \/ CommunicateReturn \/ CommunicateRaise \/ CommunicateTimeout
    \/ Kill \/ Drain \/ Finally \/ ParseOutput
    \/ TestCodeReturn \/ TestCodeExcept

Next == Launcher \/ ChildExit

Spec == Init /\ [][Next]_vars

\* the thread running test_code is scheduled until the call ends
FairSpec == Spec /\ WF_vars(Launcher)

(***************************************************************************)
(* Properties of test_code and SafeExecutor.run.                           *)
(***************************************************************************)
Ended == outcome # "pending"

Range(s) == { s[i] : i \in 1..Len(s) }

Spawned == Range(spawned)

ReplyHas(keys) == keys \subseteq DOMAIN reply

\* C1: once the call has returned or raised, no temp file it created is
\* left on disk, on any exit path.
TempFileDeleted == Ended => created \cap files = {}

\* C2: once the call has returned or raised, every child it spawned has
\* terminated and been reaped.
NoChildOutlivesCall == Ended => \A p \in Spawned : procs[p] = "reaped"

\* the children that ran without the Job Object caps
RanUncapped == { p \in Spawned : p \notin capped /\ procs[p] # "suspended" }

\* C3: a reply for a call whose child ran without caps warns of reduced
\* resource limits, unless the evaluation was aborted.
ReducedIsolationAdvertised ==
    (outcome = "returned" /\ RanUncapped # {}) =>
        \/ ReplyHas({"error"})
        \/ ReplyHas({"platform_warning"}) /\ reply.platform_warning = REDUCED_WARNING

\* C4: when the deadline passed before the child exited, the child is
\* killed and the call returns stdout "", the timeout message and 124.
TimeoutReply ==
    (Ended /\ deadline_hit) =>
        /\ outcome = "returned"
        /\ procs[process] \in {"killed", "exited", "reaped"}
        /\ ReplyHas({"stdout", "stderr", "exit_code"})
        /\ reply.stdout = <<>>
        /\ reply.stderr = TimeoutResult(timeout).stderr
        /\ reply.exit_code = 124

\* C5: every call eventually returns a reply.
EventuallyReplies == <>(outcome = "returned")

\* the waits on the child are bounded: a call that waits for its child
\* ends with a reply
WaitIsBounded == (pc = "communicate") ~> (outcome = "returned")

Phases == {"syntax_check", "security_check", "execution"}

\* C6: every reply has a phase, and a reply of phase execution carries
\* stdout, stderr and an integer exit_code.
ExecutionEnvelope ==
    outcome = "returned" =>
        /\ reply.phase \in Phases
        /\ reply.phase = "execution" =>
              /\ ReplyHas({"stdout", "stderr", "exit_code"})
              /\ reply.exit_code \in Int

\* C7: test_code never lets an exception reach its caller.
NeverRaises == outcome # "raised"

IsPrefix(s, t) == Len(s) <= Len(t) /\ s = SubSeq(t, 1, Len(s))

\* C8: the phases start in the order syntax check, scan, execution; the
\* scan starts only after a valid syntax check; a temp file or a child
\* exists only after the scan returned no violation; a syntax_check or
\* security_check reply means no temp file and no child.
PhasesSequential ==
    /\ IsPrefix(trace, <<"syntax_check", "security_check", "execution">>)
    /\ Len(trace) >= 2 => syntax_result.valid
    /\ (Len(trace) = 3 \/ created # {} \/ spawned # <<>>) =>
          /\ Len(trace) = 3
          /\ ~code.deep
          /\ violations = <<>>
    /\ (outcome = "returned" /\ reply.phase \in {"syntax_check", "security_check"}) =>
          created = {} /\ spawned = <<>>

\* C8 witness: a reply of phase execution, after a temp file was written
\* and a child spawned.
PhasesSequentialWitness ==
    /\ outcome = "returned"
    /\ reply.phase = "execution"
    /\ trace = <<"syntax_check", "security_check", "execution">>
    /\ created # {}
    /\ spawned # <<>>

RlimitSet(p, resource) == \E l \in rlimits[p] : l.resource = resource

\* C11: a limit of zero puts no cap on the child: no rlimit is set for it
\* and the Job Object the child is assigned to has no limit flag for it.
ZeroLimitMeansNoCap ==
    /\ \A p \in Spawned :
          /\ cpu_limit_sec = 0 => ~RlimitSet(p, "RLIMIT_CPU")
          /\ memory_limit_mb = 0 => ~RlimitSet(p, "RLIMIT_AS")
    /\ (~IS_UNIX /\ capped # {}) =>
          /\ cpu_limit_sec = 0 =>
                "JOB_OBJECT_LIMIT_PROCESS_TIME" \notin job_limits.LimitFlags
          /\ memory_limit_mb = 0 =>
                job_limits.LimitFlags \cap {"JOB_OBJECT_LIMIT_PROCESS_MEMORY",
                                            "JOB_OBJECT_LIMIT_JOB_MEMORY"} = {}

\* the child exited before the deadline and communicate has reaped it
ExitedInTime ==
    /\ Ended
    /\ ~deadline_hit
    /\ process # NoProcess
    /\ procs[process] = "reaped"

\* C12: when the child exited in time and its stdout is empty or no valid
\* JSON, run returns the raw stdout, the raw stderr and the child's exit
\* status, or 1 when that is 0.
ContainmentFailureRecord ==
    (ExitedInTime /\ ~json_loads(RawStdout(user)).ok) =>
        result = [stdout |-> RawStdout(user),
                  stderr |-> RawStderr(user),
                  exit_code |-> IF user.rc # 0 THEN user.rc ELSE 1]

\* C20: once the call has returned or raised, the Job Object it created
\* is no longer open.
JobHandleReleased == Ended => job # "open"

\* C24: on Unix every installed rlimit has equal soft and hard values that
\* are not zero: floor(cpu_limit_sec) seconds for RLIMIT_CPU,
\* memory_limit_mb * 1048576 bytes for RLIMIT_AS; a cpu_limit_sec between
\* 0 and 1 therefore installs no RLIMIT_CPU of 0.
UnixRlimitsNonZero ==
    IS_UNIX =>
        \A p \in Spawned :
            \A l \in rlimits[p] :
                /\ l.soft = l.hard
                /\ l.soft # 0
                /\ l.resource = "RLIMIT_CPU" => l.soft = cpu_limit_sec \div 10
                /\ l.resource = "RLIMIT_AS" => l.soft = memory_limit_mb * 1048576

\* C21: a call spawns at most one interpreter process on every path, and a
\* later spawn of the same call never finds an earlier child still existing.
AtMostOneChildPerCall ==
    /\ Len(spawned) <= 1
    /\ \A i \in 1..(Len(spawned) - 1) : procs[spawned[i]] = "reaped"

(***************************************************************************)
(* SpecScan: scan applied to every source of Sources.                      *)
(***************************************************************************)
InitScan ==
    /\ code \in Sources
    /\ timeout = 1
    /\ cpu_limit_sec = 100
    /\ memory_limit_mb = 100
    /\ platform = "unix"
    /\ pywin32 = FALSE
    /\ user = Behaviour(TRUE, "record", 0, 0)
    /\ pc = "scan_call"
    /\ Idle
    /\ ChildIdle
    /\ CallsIdle

ScanSource ==
    /\ pc = "scan_call"
    /\ violations' = scan(code)
    /\ pc' = "scan_returned"
    /\ UNCHANGED <<child, calls, inputs, limits, syntax_result, result, reply, outcome, locals,
                   host, history>>

NextScan == ScanSource

SpecScan == InitScan /\ [][NextScan]_vars

(***************************************************************************)
(* What the source text says, independently of the visitor.                *)
(***************************************************************************)
RECURSIVE Flatten(_)
Flatten(seqs) == IF seqs = <<>> THEN <<>> ELSE Head(seqs) \o Flatten(Tail(seqs))

Kids(node) == Flatten(node.fields)

RECURSIVE Descendants(_)
Descendants(node) ==
    {node} \cup UNION { Descendants(k) : k \in Range(Kids(node)) }

\* the top-level package of a dotted module name is its first component
TopLevel(dotted) == IF dotted = <<>> THEN "" ELSE dotted[1]

BareCallee(node) ==
    IF node.kind = "Call" /\ node.fields[1][1].kind = "Name"
    THEN node.fields[1][1].id ELSE ""

\* the flagged constructs a node itself is, in the order of its text
RECURSIVE FlaggedAliases(_)
FlaggedAliases(names) ==
    IF names = <<>> THEN <<>>
    ELSE (IF TopLevel(Head(names).dotted) \in DANGEROUS_MODULES
          THEN <<ImportMsg(TopLevel(Head(names).dotted))>> ELSE <<>>)
         \o FlaggedAliases(Tail(names))

Flagged(node) ==
    CASE node.kind = "Call" ->
           IF BareCallee(node) \in DANGEROUS_NAMES
           THEN <<CallMsg(BareCallee(node))>> ELSE <<>>
      [] node.kind = "Import" -> FlaggedAliases(node.fields[1])
      [] node.kind = "ImportFrom" ->
           IF TopLevel(node.dotted) \in DANGEROUS_MODULES
           THEN <<ImportFromMsg(TopLevel(node.dotted))>> ELSE <<>>
      [] OTHER -> <<>>

\* the order in which the text of a node's fields appears in the source:
\* "body if test else orelse"; "@decorator def name(args): body"
TextOrder(node) ==
    CASE node.kind = "IfExp"       -> <<2, 1, 3>>
      [] node.kind = "FunctionDef" -> <<3, 1, 2>>
      [] OTHER                     -> [i \in 1..Len(node.fields) |-> i]

RECURSIVE InSourceOrder(_), InSourceOrderList(_)
InSourceOrder(node) ==
    Flagged(node) \o
    InSourceOrderList(
        Flatten([i \in 1..Len(node.fields) |-> node.fields[TextOrder(node)[i]]]))
InSourceOrderList(list) ==
    IF list = <<>> THEN <<>>
    ELSE InSourceOrder(Head(list)) \o InSourceOrderList(Tail(list))

\* the order of ast.NodeVisitor: a node, then its fields in _fields order
RECURSIVE InFieldOrder(_), InFieldOrderList(_)
InFieldOrder(node) == Flagged(node) \o InFieldOrderList(Kids(node))
InFieldOrderList(list) ==
    IF list = <<>> THEN <<>>
    ELSE InFieldOrder(Head(list)) \o InFieldOrderList(Tail(list))

ScanReturned == pc = "scan_returned" /\ code.parse = "ok"

ViolationsInSourceOrder ==
    ScanReturned => violations = InSourceOrder(code.tree)

HasReorderedForm(tree) ==
    \E n \in Descendants(tree) :
        \/ n.kind = "IfExp"
        \/ n.kind = "FunctionDef" /\ n.fields[3] # <<>>

\* C10 amended: the violations are in visitor order (a node before its
\* children, children in _fields order) with duplicates preserved; this is
\* source order when no conditional expression or decorator is present.
ViolationsInTraversalOrder ==
    ScanReturned =>
        /\ violations = InFieldOrder(code.tree)
        /\ ~HasReorderedForm(code.tree) => violations = InSourceOrder(code.tree)

\* C10 witness: a conditional expression whose three calls are reported
\* test first, with one entry repeated.
ViolationsInTraversalOrderWitness ==
    /\ ScanReturned
    /\ HasReorderedForm(code.tree)
    /\ violations # InSourceOrder(code.tree)
    /\ \E i, j \in 1..Len(violations) : i < j /\ violations[i] = violations[j]

(***************************************************************************)
(* SpecChild: the script rendered by _generate_sandbox_script, run by the  *)
(* child interpreter on a user program.  The user program is a sequence of *)
(* operations on its own namespace; objects are records naming what they   *)
(* are.                                                                    *)
(***************************************************************************)
MaxOps == 2

\* lines 236-240
dangerous_names ==
    <<"__import__", "eval", "exec", "compile",
      "getattr", "setattr", "globals", "locals",
      "help", "dir", "vars", "breakpoint", "memoryview">>

\* lines 241-247
dangerous_modules ==
    <<"subprocess", "shutil",
      "requests", "urllib", "pathlib", "inspect", "types",
      "ctypes", "pickle", "marshal", "builtins",
      "resource", "signal",
      "getpass", "os">>

\* dir(builtins): the names of the analyzer's and the template's lists are
\* all built-ins; a few others stand for the rest
BuiltinNames ==
    DANGEROUS_NAMES \cup Range(dangerous_names)
        \cup {"print", "len", "exit", "__build_class__", "__name__"}

\* name.startswith('_') on BuiltinNames
StartsWithUnderscore(name) ==
    name \in {"__import__", "__build_class__", "__name__"}

\* SAFE_BUILTINS without the test on dangerous_names
SafeBuiltinNamesUnfiltered ==
    {name \in BuiltinNames : ~StartsWithUnderscore(name)}

\* lines 272-277: the keys of SAFE_BUILTINS
SafeBuiltinNames ==
    {name \in BuiltinNames :
        name \notin Range(dangerous_names) /\ ~StartsWithUnderscore(name)}

\* objects the user code can hold
Builtin(name) == [kind |-> "builtin", name |-> name]
Function(name) == [kind |-> "function", name |-> name]
ModuleObject(name) == [kind |-> "module", name |-> name]
Value == [kind |-> "value", name |-> "int"]
Unbound(name) == [kind |-> "unbound", name |-> name]
SAFE_BUILTINS == [kind |-> "dict", name |-> "SAFE_BUILTINS"]

\* modules in sys.modules when the interpreter starts the script
StartupModules == {"sys", "builtins", "os", "posix", "io", "marshal"}

\* dict without a key
Without(d, key) == [k \in DOMAIN d \ {key} |-> d[k]]

\* name lookup in the frame exec gives the user code: its globals, then the
\* dict under globals['__builtins__']
Resolve(name) ==
    IF name \in DOMAIN safe_globals THEN safe_globals[name]
    ELSE IF name \in DOMAIN safe_builtins THEN safe_builtins[name]
    ELSE Unbound(name)

Exception(type, msg) == [type |-> type, msg |-> msg]

\* type(f).__name__
TypeName(f) ==
    CASE f.kind = "builtin" -> "builtin_function_or_method"
      [] f.kind = "value" -> "int"
      [] OTHER -> f.kind
NameError(name) == Exception("NameError", <<"name '", name, "' is not defined">>)

\* what calling an object does: raise, write a line through safe_print into
\* stdout_buffer, write a line to the real stdout, or return
Raises(e) == [do |-> "raise", e |-> e]
Returns == [do |-> "return", e |-> NoException]
Invoke(f) ==
    CASE f.kind = "unbound" -> Raises(NameError(f.name))
      [] f.kind \in {"value", "module", "dict"} ->
            Raises(Exception("TypeError",
                             <<"'", TypeName(f), "' object is not callable">>))
      \* lines 279-281
      [] f = Function("restricted_import") ->
            Raises(Exception("ImportError", <<"All imports disabled in sandbox">>))
      \* lines 288-290
      [] f = Function("disabled_open") ->
            Raises(Exception("OSError", <<"open() disabled in sandbox">>))
      \* lines 297-301
      [] f = Function("safe_print") -> [do |-> "buffer", e |-> NoException]
      [] f = Builtin("print") -> [do |-> "real", e |-> NoException]
      \* the child's stdin is at end of file
      [] f = Builtin("input") ->
            Raises(Exception("EOFError", <<"EOF when reading a line">>))
      [] f = Builtin("exit") -> Raises(Exception("SystemExit", <<"None">>))
      [] OTHER -> Returns

\* the user programs: operations of user code on its namespace
Op(op, name, arg) == [op |-> op, name |-> name, arg |-> arg]
CallNames == Range(dangerous_names) \cup {"open", "input", "len", "exit"}
Texts == {"a", "b"}
Ops ==
    \* name(...)
    {Op("call", n, "") : n \in CallNames}
    \* print(arg)
    \cup {Op("call", "print", t) : t \in Texts}
    \* __builtins__[name](arg)
    \cup {Op("builtins_call", n, "c") : n \in {"print", "open", "eval"}}
    \* name = 1
    \cup {Op("bind", n, "") : n \in {"print", "open", "eval", "__import__"}}
    \* del name
    \cup {Op("del", n, "") : n \in {"print", "open", "eval", "__import__"}}
    \* import name
    \cup {Op("import", m, "") : m \in {"os", "json"}}
    \* __builtins__['__import__'] = print.__globals__['builtins'].__import__
    \cup {Op("install_import", "print", "")}
    \* raise type(arg)
    \cup {Op("raise", "ValueError", "boom"), Op("raise", "SystemExit", "0")}
    \* print.__globals__['sys'].modules['posix']._exit(0)
    \cup {Op("posix_exit", "print", "")}
    \* text that does not compile
    \cup {Op("syntax_error", "", "")}

RECURSIVE Programs(_)
Programs(n) ==
    IF n = 0 THEN {<<>>}
    ELSE Programs(n - 1)
            \cup {Append(p, o) : p \in {q \in Programs(n - 1) : Len(q) = n - 1},
                                 o \in Ops}

InitChild ==
    /\ code = Unreadable
    /\ timeout = 1
    /\ cpu_limit_sec = 100
    /\ memory_limit_mb = 100
    /\ platform = "unix"
    /\ pywin32 = FALSE
    /\ user = Behaviour(TRUE, "record", 0, 0)
    /\ pc = "child"
    /\ Idle
    /\ CallsIdle
    /\ user_code \in Programs(MaxOps)
    /\ program = user_code
    /\ cpc = "start"
    /\ sys_modules = StartupModules
    /\ safe_builtins = EmptyDict
    /\ safe_globals = EmptyDict
    /\ stdout_buffer = <<>>
    /\ stderr_buffer = <<>>
    /\ real_stdout = <<>>
    /\ t_exit_code = None
    /\ raised = NoException
    /\ printed = <<>>

\* lines 250-270: imports of the template, dangerous modules dropped from
\* sys.modules
RemoveModules ==
    /\ cpc = "start"
    /\ sys_modules' = (sys_modules \cup {"json", "io", "builtins"})
                          \ Range(dangerous_modules)
    /\ cpc' = "build"
    /\ UNCHANGED <<launcher, calls, user_code, program, safe_builtins,
                   safe_globals, stdout_buffer, stderr_buffer, real_stdout,
                   t_exit_code, raised, printed>>

\* lines 272-305: SAFE_BUILTINS, safe_globals with the three shims, the
\* buffers, exit_code = 0
BuildEnvironment ==
    /\ cpc = "build"
    /\ safe_builtins' = [name \in SafeBuiltinNames |-> Builtin(name)]
    /\ safe_globals' = [name \in {"__builtins__", "__import__", "open", "print"} |->
                          CASE name = "__builtins__" -> SAFE_BUILTINS
                            [] name = "__import__" -> Function("restricted_import")
                            [] name = "open" -> Function("disabled_open")
                            [] name = "print" -> Function("safe_print")]
    /\ stdout_buffer' = <<>>
    /\ stderr_buffer' = <<>>
    /\ t_exit_code' = 0
    /\ cpc' = "compile"
    /\ UNCHANGED <<launcher, calls, user_code, program, sys_modules,
                   real_stdout, raised, printed>>

\* line 308: exec compiles the code string before running any of it
Compile ==
    /\ cpc = "compile"
    /\ IF \E i \in 1..Len(user_code) : user_code[i].op = "syntax_error"
       THEN /\ raised' = Exception("SyntaxError", <<"invalid syntax (<string>, line 1)">>)
            /\ cpc' = "except"
       ELSE /\ raised' = raised
            /\ cpc' = "exec"
    /\ UNCHANGED <<launcher, calls, user_code, program, sys_modules,
                   safe_builtins, safe_globals, stdout_buffer, stderr_buffer,
                   real_stdout, t_exit_code, printed>>

\* line 308: the user code's next statement raises e, or completes
Throw(e) ==
    /\ raised' = e
    /\ cpc' = "except"
    /\ UNCHANGED program

Continue ==
    /\ program' = Tail(program)
    /\ UNCHANGED <<raised, cpc>>

Running(op) ==
    /\ cpc = "exec"
    /\ program # <<>>
    /\ Head(program).op = op

\* calling f with a text: the effect of Invoke on the buffers
Apply(f, text) ==
    LET r == Invoke(f)
    IN  /\ IF r.do = "raise" THEN Throw(r.e) ELSE Continue
        /\ stdout_buffer' = IF r.do = "buffer"
                            THEN Append(stdout_buffer, text)
                            ELSE stdout_buffer
        /\ real_stdout' = IF r.do = "real"
                          THEN Append(real_stdout, [kind |-> "text", line |-> text])
                          ELSE real_stdout
        /\ printed' = IF r.do \in {"buffer", "real"}
                      THEN Append(printed, text)
                      ELSE printed

\* name(arg)
UserCall ==
    /\ Running("call")
    /\ Apply(Resolve(Head(program).name), Head(program).arg)
    /\ UNCHANGED <<launcher, calls, user_code, sys_modules, safe_builtins,
                   safe_globals, stderr_buffer, t_exit_code>>

\* __builtins__[name](arg)
UserBuiltinsCall ==
    /\ Running("builtins_call")
    /\ LET name == Head(program).name
       IN  IF name \in DOMAIN safe_builtins
           THEN Apply(safe_builtins[name], Head(program).arg)
           ELSE /\ Throw(Exception("KeyError", <<"'", name, "'">>))
                /\ UNCHANGED <<stdout_buffer, real_stdout, printed>>
    /\ UNCHANGED <<launcher, calls, user_code, sys_modules, safe_builtins,
                   safe_globals, stderr_buffer, t_exit_code>>

\* name = 1
UserBind ==
    /\ Running("bind")
    /\ safe_globals' = [n \in DOMAIN safe_globals \cup {Head(program).name} |->
                          IF n = Head(program).name THEN Value
                          ELSE safe_globals[n]]
    /\ Continue
    /\ UNCHANGED <<launcher, calls, user_code, sys_modules, safe_builtins,
                   stdout_buffer, stderr_buffer, real_stdout, t_exit_code,
                   printed>>

\* del name
UserDel ==
    /\ Running("del")
    /\ LET name == Head(program).name
       IN  IF name \in DOMAIN safe_globals
           THEN /\ safe_globals' = Without(safe_globals, name)
                /\ Continue
           ELSE /\ Throw(NameError(name))
                /\ UNCHANGED safe_globals
    /\ UNCHANGED <<launcher, calls, user_code, sys_modules, safe_builtins,
                   stdout_buffer, stderr_buffer, real_stdout, t_exit_code,
                   printed>>

\* import name: the statement calls the '__import__' entry of the frame's
\* built-ins dict, not the global of that name
UserImport ==
    /\ Running("import")
    /\ LET name == Head(program).name
       IN  IF "__import__" \notin DOMAIN safe_builtins
           THEN /\ Throw(Exception("ImportError", <<"__import__ not found">>))
                /\ UNCHANGED <<safe_globals, sys_modules>>
           ELSE /\ safe_globals' = [n \in DOMAIN safe_globals \cup {name} |->
                                      IF n = name THEN ModuleObject(name)
                                      ELSE safe_globals[n]]
                /\ sys_modules' = sys_modules \cup {name}
                /\ Continue
    /\ UNCHANGED <<launcher, calls, user_code, safe_builtins, stdout_buffer,
                   stderr_buffer, real_stdout, t_exit_code, printed>>

\* __builtins__['__import__'] = print.__globals__['builtins'].__import__:
\* safe_print is a function of the template's module, whose globals hold
\* the builtins module imported at line 265
UserInstallImport ==
    /\ Running("install_import")
    /\ LET f == Resolve(Head(program).name)
       IN  CASE f.kind = "unbound" ->
                    /\ Throw(NameError(f.name))
                    /\ UNCHANGED safe_builtins
             [] f.kind = "function" ->
                    /\ safe_builtins' =
                          [n \in DOMAIN safe_builtins \cup {"__import__"} |->
                              IF n = "__import__" THEN Builtin("__import__")
                              ELSE safe_builtins[n]]
                    /\ Continue
             [] OTHER ->
                    /\ Throw(Exception("AttributeError",
                                <<"'", TypeName(f), "' object has no attribute '__globals__'">>))
                    /\ UNCHANGED safe_builtins
    /\ UNCHANGED <<launcher, calls, user_code, sys_modules, safe_globals,
                   stdout_buffer, stderr_buffer, real_stdout, t_exit_code,
                   printed>>

\* print.__globals__['sys'].modules['posix']._exit(0): safe_print's globals
\* hold the sys module imported at line 250; _exit ends the process at
\* once, no except or finally block of the template runs
UserPosixExit ==
    /\ Running("posix_exit")
    /\ LET f == Resolve(Head(program).name)
       IN  CASE f.kind = "unbound" -> Throw(NameError(f.name))
             [] f.kind = "function" /\ "posix" \in sys_modules ->
                    /\ cpc' = "exited"
                    /\ UNCHANGED <<program, raised>>
             [] f.kind = "function" /\ "posix" \notin sys_modules ->
                    Throw(Exception("KeyError", <<"'", "posix", "'">>))
             [] OTHER ->
                    Throw(Exception("AttributeError",
                                <<"'", TypeName(f), "' object has no attribute '__globals__'">>))
    /\ UNCHANGED <<launcher, calls, user_code, sys_modules, safe_builtins,
                   safe_globals, stdout_buffer, stderr_buffer, real_stdout,
                   t_exit_code, printed>>

\* raise type(arg)
UserRaise ==
    /\ Running("raise")
    /\ Throw(Exception(Head(program).name, <<Head(program).arg>>))
    /\ UNCHANGED <<launcher, calls, user_code, sys_modules, safe_builtins,
                   safe_globals, stdout_buffer, stderr_buffer, real_stdout,
                   t_exit_code, printed>>

\* line 308: exec returns, the user code ran to completion
ExecReturns ==
    /\ cpc = "exec"
    /\ program = <<>>
    /\ cpc' = "finally"
    /\ UNCHANGED <<launcher, calls, user_code, program, sys_modules,
                   safe_builtins, safe_globals, stdout_buffer, stderr_buffer,
                   real_stdout, t_exit_code, raised, printed>>

\* lines 309-311: except BaseException
Except ==
    /\ cpc = "except"
    /\ stderr_buffer' = stderr_buffer \o <<raised.type, ": ">> \o raised.msg
    /\ t_exit_code' = 1
    /\ cpc' = "finally"
    /\ UNCHANGED <<launcher, calls, user_code, program, sys_modules,
                   safe_builtins, safe_globals, stdout_buffer, real_stdout,
                   raised, printed>>

\* lines 312-319: the record, written to the real stdout
Emit ==
    /\ cpc = "finally"
    /\ real_stdout' = Append(real_stdout,
                             [kind |-> "json",
                              line |-> [stdout |-> stdout_buffer,
                                        stderr |-> stderr_buffer,
                                        exit_code |-> t_exit_code]])
    /\ cpc' = "emitted"
    /\ UNCHANGED <<launcher, calls, user_code, program, sys_modules,
                   safe_builtins, safe_globals, stdout_buffer, stderr_buffer,
                   t_exit_code, raised, printed>>

UserCode ==
    \/ UserCall
    \/ UserBuiltinsCall
    \/ UserBind
    \/ UserDel
    \/ UserImport
    \/ UserInstallImport
    \/ UserPosixExit
    \/ UserRaise

NextChild ==
    \/ RemoveModules
    \/ BuildEnvironment
    \/ Compile
    \/ UserCode
    \/ ExecReturns
    \/ Except
    \/ Emit

SpecChild == InitChild /\ [][NextChild]_vars

(***************************************************************************)
(* Claims about the child.                                                 *)
(***************************************************************************)
Emitted == cpc = "emitted"

\* the record the child wrote last to its real stdout
ChildRecord == real_stdout[Len(real_stdout)].line

CompileFails == \E i \in 1..Len(user_code) : user_code[i].op = "syntax_error"

\* how many operations of the user code have begun
Started ==
    IF CompileFails \/ cpc \in {"start", "build", "compile"} THEN 0
    ELSE Len(user_code) - Len(program) + (IF raised # NoException THEN 1 ELSE 0)

\* C13: the record's exit_code is 0 exactly when the user code completed
\* without raising and 1 when it raised, stderr then being
\* "<type>: <message>"; stdout holds everything the user code printed, and
\* is empty when it printed nothing.
ChildRecordContract ==
    Emitted =>
        /\ ChildRecord.exit_code = 0 <=> raised = NoException
        /\ raised # NoException =>
              /\ ChildRecord.exit_code = 1
              /\ ChildRecord.stderr = <<raised.type, ": ">> \o raised.msg
        /\ ChildRecord.stdout = printed
        /\ printed = <<>> => ChildRecord.stdout = <<>>

\* C14: no module object is ever bound in the user code's namespace, and a
\* run in which an import statement began ends with a non-zero exit_code
\* and a stderr naming ImportError.
ImportsAlwaysFail ==
    /\ \A n \in DOMAIN safe_globals : safe_globals[n].kind # "module"
    /\ (Emitted /\ \E i \in 1..Started : user_code[i].op = "import") =>
          /\ ChildRecord.exit_code # 0
          /\ ChildRecord.stderr # <<>>
          /\ ChildRecord.stderr[1] = "ImportError"

\* operation i calls a name of the template's dangerous_names which the
\* user code has not bound or deleted before
BareCallAt(i) ==
    /\ user_code[i].op = "call"
    /\ user_code[i].name \in Range(dangerous_names)
    /\ \A j \in 1..(i - 1) :
          ~(user_code[j].op \in {"bind", "del"}
              /\ user_code[j].name = user_code[i].name)

FailsWith(i, e) ==
    /\ i = Started
    /\ raised = e
    /\ ChildRecord.exit_code # 0
    /\ ChildRecord.stderr = <<e.type, ": ">> \o e.msg

\* C15 as stated: a bare call of any name of dangerous_names fails with a
\* NameError naming it, and the record has a non-zero exit_code.
DangerousCallIsNameError ==
    Emitted =>
        \A i \in 1..Started :
            BareCallAt(i) => FailsWith(i, NameError(user_code[i].name))

\* C15 amended: a bare call of a name of dangerous_names other than
\* __import__ fails with a NameError naming it; a bare call of __import__
\* reaches restricted_import and fails with its ImportError; the record has
\* a non-zero exit_code in both cases.
DangerousCallFails ==
    Emitted =>
        \A i \in 1..Started :
            BareCallAt(i) =>
                IF user_code[i].name = "__import__"
                THEN FailsWith(i, Exception("ImportError",
                                    <<"All imports disabled in sandbox">>))
                ELSE FailsWith(i, NameError(user_code[i].name))

\* C15 witness: a record emitted after a bare call of eval failed.
DangerousCallFailsWitness ==
    /\ Emitted
    /\ Started = 2
    /\ BareCallAt(2)
    /\ user_code[2].name = "eval"
    /\ ChildRecord.exit_code = 1
    /\ ChildRecord.stderr[1] = "NameError"

\* C17: every print call of the user code goes into stdout_buffer, and
\* nothing but the record reaches the real stdout.
PrintsStayInBuffer ==
    /\ stdout_buffer = printed
    /\ \A i \in 1..Len(real_stdout) : real_stdout[i].kind = "json"

\* a shim of the template that always raises
IsShim(f) == f \in {Function("restricted_import"), Function("disabled_open")}

\* C18: while user code runs no name of the analyzer's DANGEROUS_NAMES
\* resolves to the genuine built-in; in the environment as built each is
\* absent from safe_globals and SAFE_BUILTINS or bound to a shim that
\* raises, open and input by direct bindings in safe_globals.
NoGenuineDangerousName ==
    /\ cpc = "exec" =>
          \A n \in DANGEROUS_NAMES : Resolve(n).kind # "builtin"
    /\ (cpc = "exec" /\ program = user_code) =>
          /\ \A n \in DANGEROUS_NAMES :
                \/ n \notin DOMAIN safe_globals /\ n \notin DOMAIN safe_builtins
                \/ IsShim(Resolve(n))
          /\ \A n \in {"open", "input"} :
                n \in DOMAIN safe_globals /\ IsShim(safe_globals[n])

\* the records the child has written to its real stdout
Envelopes == {i \in 1..Len(real_stdout) : real_stdout[i].kind = "json"}

\* the user code has finished and the child process has ended
ChildEnded == cpc \in {"emitted", "exited"}

\* C22: the child writes its record to the real stdout exactly once: none
\* while the user code runs, one by the time the child has ended, written
\* last and holding the contents of stdout_buffer and stderr_buffer.
EnvelopeWrittenOnce ==
    /\ Cardinality(Envelopes) <= 1
    /\ Envelopes # {} =>
          /\ cpc = "emitted"
          /\ Envelopes = {Len(real_stdout)}
          /\ ChildRecord.stdout = stdout_buffer
          /\ ChildRecord.stderr = stderr_buffer
    /\ ChildEnded => Cardinality(Envelopes) = 1

\* C19: the dangerous_modules list the child has looped over is, as a set,
\* the analyzer's DANGEROUS_MODULES with getpass added and sys and platform
\* removed.
RenderedModulesMatchAnalyzer ==
    cpc # "start" =>
        Range(dangerous_modules) =
            (DANGEROUS_MODULES \cup {"getpass"}) \ {"sys", "platform"}

(***************************************************************************)
(* SpecCalls: several calls of SafeExecutor.run in progress at once, on    *)
(* the Unix branch.  Each call has its own locals (script_path, process,   *)
(* the result it will return); the temp directory and the process table    *)
(* belong to the host and are shared.  Call i runs code i, and a child     *)
(* prints the number of the code found in the script it was started on.    *)
(***************************************************************************)
NumCalls == 2
CallIds == 1..NumCalls
TempNames == 1..NumCalls
PidPool == 1..NumCalls

Put(d, key, value) ==
    [k \in DOMAIN d \cup {key} |-> IF k = key THEN value ELSE d[k]]

\* a temp file primitive that always hands out the same name
mkstempFixedName(existing) == {1}

\* line 39: NamedTemporaryFile creates a file under a name no existing file
\* has (O_CREAT | O_EXCL, retried on collision)
mkstemp(existing) == TempNames \ existing

InitCalls ==
    /\ code = Unreadable
    /\ timeout = 1
    /\ cpu_limit_sec = 100
    /\ memory_limit_mb = 100
    /\ platform = "unix"
    /\ pywin32 = FALSE
    /\ user = Behaviour(TRUE, "record", 0, 0)
    /\ pc = "calls"
    /\ Idle
    /\ ChildIdle
    /\ k_pc = [i \in CallIds |-> "create"]
    /\ k_path = [i \in CallIds |-> 0]
    /\ k_proc = [i \in CallIds |-> NoProcess]
    /\ k_result = [i \in CallIds |-> NonRecord]
    /\ k_files = EmptyDict
    /\ k_procs = EmptyDict
    /\ k_foreign = {}

\* call i touched what call owner created
Foreign(i, op, owner) ==
    IF owner # i THEN {[call |-> i, op |-> op, owner |-> owner]} ELSE {}

\* lines 39-40: the temp file is created
KCreate(i) ==
    /\ k_pc[i] = "create"
    /\ \E name \in mkstemp(DOMAIN k_files) :
          /\ k_files' = Put(k_files, name, [owner |-> i, content |-> 0])
          /\ k_path' = [k_path EXCEPT ![i] = name]
    /\ k_pc' = [k_pc EXCEPT ![i] = "write"]
    /\ UNCHANGED <<launcher, child, k_proc, k_result, k_procs, k_foreign>>

\* lines 40-41: the script is written and the file closed
KWrite(i) ==
    /\ k_pc[i] = "write"
    /\ LET f == k_files[k_path[i]]
       IN  /\ k_files' = [k_files EXCEPT ![k_path[i]].content = i]
           /\ k_foreign' = k_foreign \cup Foreign(i, "write", f.owner)
    /\ k_pc' = [k_pc EXCEPT ![i] = "spawn"]
    /\ UNCHANGED <<launcher, child, k_path, k_proc, k_result, k_procs>>

\* lines 76-88: Popen starts a child on script_path, or raises
KSpawn(i) ==
    /\ k_pc[i] = "spawn"
    /\ \/ \E pid \in PidPool \ DOMAIN k_procs :
             LET script == IF k_path[i] \in DOMAIN k_files
                           THEN k_files[k_path[i]].content ELSE 0
             IN  /\ k_procs' = Put(k_procs, pid,
                                   [owner |-> i, script |-> script,
                                    state |-> "running"])
                 /\ k_proc' = [k_proc EXCEPT ![i] = pid]
                 /\ k_foreign' = k_foreign \cup
                        (IF k_path[i] \in DOMAIN k_files
                         THEN Foreign(i, "read", script)
                         ELSE {[call |-> i, op |-> "read", owner |-> 0]})
                 /\ k_pc' = [k_pc EXCEPT ![i] = "communicate"]
                 /\ UNCHANGED k_result
       \/ /\ k_result' = [k_result EXCEPT ![i] = [kind |-> "raised", of |-> i]]
          /\ k_pc' = [k_pc EXCEPT ![i] = "finally"]
          /\ UNCHANGED <<k_procs, k_proc, k_foreign>>
    /\ UNCHANGED <<launcher, child, k_path, k_files>>

\* a running child exits
KChildExit(pid) ==
    /\ pid \in DOMAIN k_procs
    /\ k_procs[pid].state = "running"
    /\ k_procs' = [k_procs EXCEPT ![pid].state = "exited"]
    /\ UNCHANGED <<launcher, child, k_pc, k_path, k_proc, k_result, k_files,
                   k_foreign>>

\* lines 184-185: communicate returns what the call's own pipes carried
\* and reaps the child
KCommunicateReturn(i) ==
    /\ k_pc[i] = "communicate"
    /\ k_procs[k_proc[i]].state = "exited"
    /\ k_result' = [k_result EXCEPT ![i] =
                       [kind |-> "output", of |-> k_procs[k_proc[i]].script]]
    /\ k_procs' = Without(k_procs, k_proc[i])
    /\ k_pc' = [k_pc EXCEPT ![i] = "finally"]
    /\ UNCHANGED <<launcher, child, k_path, k_proc, k_files, k_foreign>>

\* lines 187-188: communicate times out
KCommunicateTimeout(i) ==
    /\ k_pc[i] = "communicate"
    /\ k_procs[k_proc[i]].state = "running"
    /\ k_pc' = [k_pc EXCEPT ![i] = "kill"]
    /\ UNCHANGED <<launcher, child, k_path, k_proc, k_result, k_files,
                   k_procs, k_foreign>>

\* line 190: process.kill() signals the pid of the Popen object
KKill(i) ==
    /\ k_pc[i] = "kill"
    /\ k_procs' = [k_procs EXCEPT ![k_proc[i]].state = "killed"]
    /\ k_foreign' = k_foreign \cup Foreign(i, "kill", k_procs[k_proc[i]].owner)
    /\ k_pc' = [k_pc EXCEPT ![i] = "drain"]
    /\ UNCHANGED <<launcher, child, k_path, k_proc, k_result, k_files>>

\* lines 191-199: the drain reaps the child or times out; the timeout
\* record is returned either way
KDrain(i) ==
    /\ k_pc[i] = "drain"
    /\ \/ k_procs' = Without(k_procs, k_proc[i])
       \/ UNCHANGED k_procs
    /\ k_result' = [k_result EXCEPT ![i] = [kind |-> "timeout", of |-> i]]
    /\ k_pc' = [k_pc EXCEPT ![i] = "finally"]
    /\ UNCHANGED <<launcher, child, k_path, k_proc, k_files, k_foreign>>

\* lines 213-220: os.unlink(script_path), a failure only logged; the call
\* then returns or re-raises
KFinally(i) ==
    /\ k_pc[i] = "finally"
    /\ IF k_path[i] \in DOMAIN k_files
       THEN /\ \/ k_files' = Without(k_files, k_path[i])
               \/ UNCHANGED k_files
            /\ k_foreign' = k_foreign \cup
                                Foreign(i, "unlink", k_files[k_path[i]].owner)
       ELSE /\ UNCHANGED k_files
            /\ k_foreign' = k_foreign \cup
                                {[call |-> i, op |-> "unlink", owner |-> 0]}
    /\ k_pc' = [k_pc EXCEPT ![i] = "done"]
    /\ UNCHANGED <<launcher, child, k_path, k_proc, k_result, k_procs>>

NextCalls ==
    \/ \E i \in CallIds :
          \/ KCreate(i)
          \/ KWrite(i)
          \/ KSpawn(i)
          \/ KCommunicateReturn(i)
          \/ KCommunicateTimeout(i)
          \/ KKill(i)
          \/ KDrain(i)
          \/ KFinally(i)
    \/ \E pid \in PidPool : KChildExit(pid)

SpecCalls == InitCalls /\ [][NextCalls]_vars

\* call i holds a temp file it has not yet tried to delete
HoldsFile(i) == k_pc[i] \notin {"create", "done"}

\* call i holds a child it has not reaped
HoldsChild(i) == k_pc[i] \in {"communicate", "kill", "drain"}

\* C16: in every interleaving of concurrent calls, the calls holding a temp
\* file hold distinct files, the calls holding a child hold distinct
\* children of their own, no call writes, runs, deletes or kills what
\* another call created, and a call that returns child output returns the
\* output of its own code.
CallsIsolated ==
    /\ \A i, j \in CallIds :
          (i # j /\ HoldsFile(i) /\ HoldsFile(j)) => k_path[i] # k_path[j]
    /\ \A i, j \in CallIds :
          (i # j /\ HoldsChild(i) /\ HoldsChild(j)) => k_proc[i] # k_proc[j]
    /\ \A i \in CallIds : HoldsChild(i) => k_procs[k_proc[i]].owner = i
    /\ k_foreign = {}
    /\ \A i \in CallIds :
          (k_pc[i] = "done" /\ k_result[i].kind = "output") => k_result[i].of = i

\* C16 witness: two calls in progress at once, each with its temp file on
\* disk and its child unreaped, one of them killing its child.
CallsIsolatedWitness ==
    \E i, j \in CallIds :
        /\ i # j
        /\ k_pc[i] = "kill"
        /\ k_pc[j] = "communicate"
        /\ {k_path[i], k_path[j]} \subseteq DOMAIN k_files
        /\ {k_proc[i], k_proc[j]} \subseteq DOMAIN k_procs

(***************************************************************************)
(* SpecSyntax: check_syntax applied to sources the parser rejects, over    *)
(* the messages the parser can give.  str(e) of a SyntaxError is its short *)
(* message followed by " (<unknown>, line N)".                             *)
(***************************************************************************)
MaxMsgLen == 3

\* the pieces parser messages are made of
MsgTokens == {"unmatched", " ", "'", "(", ")"}

RECURSIVE Messages(_)
Messages(n) ==
    IF n = 0 THEN {<<>>}
    ELSE Messages(n - 1)
            \cup {Append(m, t) : m \in {q \in Messages(n - 1) : Len(q) = n - 1},
                                 t \in MsgTokens}

\* parser messages neither start nor end with whitespace
ShortMessages ==
    {m \in Messages(MaxMsgLen) : m # <<>> /\ m[1] # " " /\ m[Len(m)] # " "}

\* SyntaxError.__str__: "msg (filename, line lineno)"
Position(lineno) ==
    <<" ", "(", IF lineno = 1 THEN "<unknown>, line 1" ELSE "<unknown>, line 2", ")">>

Rejected(short, lineno, offset, lines) ==
    Source("SyntaxError", Module(<<>>), FALSE, short \o Position(lineno),
           lineno, offset, lines)

\* "print(2 +" : SyntaxError "'(' was never closed (<unknown>, line 1)"
PrintTwoPlus ==
    Rejected(<<"'", "(", "' was never closed">>, 1, 6, << <<"print(2 +">> >>)

\* "if True:\npass" : IndentationError "expected an indented block after
\* 'if' statement on line 1 (<unknown>, line 2)"
NotIndented ==
    Rejected(<<"expected an indented block after ", "'", "if", "'",
               " statement on line 1">>, 2, 1, << <<"if True:">>, <<"pass">> >>)

SyntaxSources ==
    {Rejected(m, 1, 1, << <<"x">> >>) : m \in ShortMessages}
        \cup {PrintTwoPlus, NotIndented, Unparseable, Unreadable,
              Parsed(Module(<<ExprStmt(Name("f"))>>))}

InitSyntax ==
    /\ code \in SyntaxSources
    /\ timeout = 1
    /\ cpu_limit_sec = 100
    /\ memory_limit_mb = 100
    /\ platform = "unix"
    /\ pywin32 = FALSE
    /\ user = Behaviour(TRUE, "record", 0, 0)
    /\ pc = "check_syntax_call"
    /\ Idle
    /\ ChildIdle
    /\ CallsIdle

\* lines 30-80: the check_syntax tool
CheckSyntaxTool ==
    /\ pc = "check_syntax_call"
    /\ syntax_result' = check_syntax(code)
    /\ pc' = "check_syntax_returned"
    /\ UNCHANGED <<child, calls, inputs, limits, violations, result, reply,
                   outcome, locals, host, history>>

NextSyntax == CheckSyntaxTool

SpecSyntax == InitSyntax /\ [][NextSyntax]_vars

\* the parser's short message: str(e) without its trailing position
ShortMessage(src) == SubSeq(src.msg, 1, Len(src.msg) - Len(Position(src.lineno)))

\* C23: on a parser failure the error field is the parser's short message,
\* only the trailing position removed, also when the message holds a "(";
\* for "print(2 +" it is not empty and begins with that message.
ErrorIsShortMessage ==
    (pc = "check_syntax_returned" /\ code.parse = "SyntaxError") =>
        /\ syntax_result.error = ShortMessage(code)
        /\ code = PrintTwoPlus =>
              /\ syntax_result.error # <<>>
              /\ IsPrefix(ShortMessage(code), syntax_result.error)

====
